---- MODULE Spec2Model ----
(***************************************************************************)
(* Model of src/input_handlers.py: the event handlers of the game session  *)
(* (EventHandler, AskUserEventHandler, MainGameEventHandler,               *)
(* GameOverEventHandler, HistoryViewer), the key tables they consult and   *)
(* the turn-advance protocol of handle_action.                             *)
(*                                                                         *)
(* One input event is processed at a time.  pc is the position inside      *)
(* handle_events: "idle" between events, then one step per statement of    *)
(* handle_action that calls into the engine.  No event is accepted while   *)
(* pc # "idle", so the steps of one call are never interleaved with        *)
(* another call.                                                           *)
(***************************************************************************)
EXTENDS Integers, Sequences, FiniteSets, TLC

(***************************************************************************)
(* Bounds of the model.                                                    *)
(***************************************************************************)
\* Width and height of the game map (tiles with 0 <= x < w, 0 <= y < h).
MapWidth == 2
MapHeight == 1
\* The message log holds 0..MaxInitLog messages when the first event comes.
MaxInitLog == 11
\* At most this many "impossible" messages are appended during a run.
MaxImpossible == 1

(***************************************************************************)
(* Key tables (tcod.event key symbols are modelled by their names).        *)
(***************************************************************************)
MOVE_KEYS ==
    ( "K_UP" :> <<0, -1>> ) @@ ( "K_DOWN" :> <<0, 1>> ) @@
    ( "K_LEFT" :> <<-1, 0>> ) @@ ( "K_RIGHT" :> <<1, 0>> ) @@
    ( "K_HOME" :> <<-1, -1>> ) @@ ( "K_END" :> <<-1, 1>> ) @@
    ( "K_PAGEUP" :> <<1, -1>> ) @@ ( "K_PAGEDOWN" :> <<1, 1>> ) @@
    ( "K_KP_1" :> <<-1, 1>> ) @@ ( "K_KP_2" :> <<0, 1>> ) @@
    ( "K_KP_3" :> <<1, 1>> ) @@ ( "K_KP_4" :> <<-1, 0>> ) @@
    ( "K_KP_5" :> <<0, 0>> ) @@ ( "K_KP_6" :> <<1, 0>> ) @@
    ( "K_KP_7" :> <<-1, -1>> ) @@ ( "K_KP_8" :> <<0, -1>> ) @@
    ( "K_KP_9" :> <<1, -1>> ) @@
    ( "K_h" :> <<-1, 0>> ) @@ ( "K_j" :> <<0, 1>> ) @@
    ( "K_k" :> <<0, -1>> ) @@ ( "K_l" :> <<1, 0>> ) @@
    ( "K_y" :> <<-1, -1>> ) @@ ( "K_u" :> <<1, -1>> ) @@
    ( "K_b" :> <<-1, 1>> ) @@ ( "K_n" :> <<1, 1>> )

WAIT_KEYS == { "K_PERIOD", "K_KP_5", "K_CLEAR" }

CURSOR_Y_KEYS ==
    ( "K_UP" :> -1 ) @@ ( "K_DOWN" :> 1 ) @@
    ( "K_PAGEUP" :> -10 ) @@ ( "K_PAGEDOWN" :> 10 )

\* The keys AskUserEventHandler.ev_keydown ignores.
MODIFIER_KEYS ==
    { "K_LSHIFT", "K_RSHIFT", "K_LCTRL", "K_RCTRL", "K_LALT", "K_RALT" }

\* Keys no table of the module names ("K_a" is a choice key of a prompt
\* subtype, "K_RETURN" is bound nowhere).
OTHER_KEYS == { "K_a", "K_RETURN" }

\* Every key symbol an event may carry.
Keys ==
    DOMAIN MOVE_KEYS \cup WAIT_KEYS \cup DOMAIN CURSOR_Y_KEYS
        \cup { "K_v", "K_g", "K_ESCAPE" } \cup MODIFIER_KEYS \cup OTHER_KEYS

(***************************************************************************)
(* Events, actions, messages.                                              *)
(***************************************************************************)
\* Tiles the pointer can be over: the map's tiles and one more column and
\* row outside the map.
Tiles == (0..MapWidth) \X (0..MapHeight)

KeyDown(sym) == [type |-> "KeyDown", sym |-> sym]
MouseMotion(tile) == [type |-> "MouseMotion", tile |-> tile]
Quit == [type |-> "Quit"]
NoEvent == [type |-> "None"]

Events ==
    { KeyDown(k) : k \in Keys } \cup { MouseMotion(t) : t \in Tiles } \cup { Quit }

\* Action objects; None is the absent action.
None == [kind |-> "None"]
BumpAction(entity, dx, dy) ==
    [kind |-> "BumpAction", entity |-> entity, dx |-> dx, dy |-> dy]
WaitAction(entity) == [kind |-> "WaitAction", entity |-> entity]
PickupAction(entity) == [kind |-> "PickupAction", entity |-> entity]
EscapeAction(entity) == [kind |-> "EscapeAction", entity |-> entity]
\* The action a prompt subtype builds from a choice (e.g. use an item).
ItemAction(entity) == [kind |-> "ItemAction", entity |-> entity]

\* message_log.add_message(text, fg): appends one message.
add_message(log, text, fg) == Append(log, [text |-> text, fg |-> fg])

\* color.impossible
impossible == "impossible"

\* game_map.in_bounds(x, y)
in_bounds(x, y) == 0 <= x /\ x < MapWidth /\ 0 <= y /\ y < MapHeight

\* The log before the first event: n messages written by the session.
InitialLog(n) == [i \in 1..n |-> [text |-> "session message", fg |-> "white"]]

\* How many messages of the log are in the impossible style.
ImpossibleCount(log) ==
    Cardinality({ i \in 1..Len(log) : log[i].fg = impossible })

\* The handler classes.  "ASK" is AskUserEventHandler with its own
\* ev_keydown, "ASK_SUB" a subtype of it that overrides ev_keydown.
Handlers == { "MAIN", "ASK", "ASK_SUB", "HISTORY", "GAMEOVER" }
IsAskUser(h) == h \in { "ASK", "ASK_SUB" }

\* The value of HistoryViewer's fields while no HistoryViewer exists.
NoViewer == -2

Max(a, b) == IF a >= b THEN a ELSE b
Min(a, b) == IF a <= b THEN a ELSE b

VARIABLES
    event_handler,   \* engine.event_handler: the class of the active handler
    messages,        \* engine.message_log.messages
    player,          \* engine.player: its position <<x, y>>
    mouse_location,  \* engine.mouse_location
    log_length,      \* HistoryViewer.log_length (NoViewer if there is none)
    cursor,          \* HistoryViewer.cursor     (NoViewer if there is none)
    pc,              \* position inside handle_events
    self,            \* the handler that is processing the event
    event,           \* the event being processed
    action,          \* the action dispatch returned
    perform_result,  \* "none", "ok" or "Impossible": how action.perform() ended
    trace,           \* the engine calls handle_action made, in order
    ret              \* what handle_action returned: "none" (not yet), "True", "False"

vars ==
    << event_handler, messages, player, mouse_location, log_length, cursor,
       pc, self, event, action, perform_result, trace, ret >>

\* The locals of one handle_events call, dropped when the call returns.
Return(value) ==
    /\ ret' = value
    /\ pc' = "idle"
    /\ self' = "none"
    /\ event' = NoEvent
    /\ action' = None

Init ==
    /\ event_handler \in { "MAIN", "ASK", "ASK_SUB" }
    /\ messages \in { InitialLog(n) : n \in 0..MaxInitLog }
    /\ player = <<0, 0>>
    /\ mouse_location = <<0, 0>>
    /\ log_length = NoViewer
    /\ cursor = NoViewer
    /\ pc = "idle"
    /\ self = "none"
    /\ event = NoEvent
    /\ action = None
    /\ perform_result = "none"
    /\ trace = <<>>
    /\ ret = "none"

(***************************************************************************)
(* Event methods.  Each yields the action dispatch returns (action'), the  *)
(* handler and viewer fields it leaves, and where the call goes next.      *)
(***************************************************************************)
\* raise SystemExit(): the process ends; nothing else changes.
SystemExit ==
    /\ pc' = "exited"
    /\ action' = None
    /\ UNCHANGED << event_handler, log_length, cursor, mouse_location >>

\* EventHandler.ev_quit returning None where it raises.
EventHandler_ev_quit_ignored ==
    /\ pc' = "handle_action"
    /\ action' = None
    /\ UNCHANGED << event_handler, log_length, cursor, mouse_location >>

\* EventHandler.ev_quit
EventHandler_ev_quit == SystemExit

\* EventHandler.ev_mousemotion without the in_bounds test.
EventHandler_ev_mousemotion_unchecked(tile) ==
    /\ mouse_location' = tile
    /\ action' = None
    /\ pc' = "handle_action"
    /\ UNCHANGED << event_handler, log_length, cursor >>

\* EventHandler.ev_mousemotion; the method returns None.
EventHandler_ev_mousemotion(tile) ==
    /\ mouse_location' =
           IF in_bounds(tile[1], tile[2]) THEN tile ELSE mouse_location
    /\ action' = None
    /\ pc' = "handle_action"
    /\ UNCHANGED << event_handler, log_length, cursor >>

\* HistoryViewer.__init__ with the cursor one past the newest message.
HistoryViewer_init_past ==
    /\ log_length' = Len(messages)
    /\ cursor' = Len(messages)

\* HistoryViewer.__init__ with the cursor on the oldest message.
HistoryViewer_init_oldest ==
    /\ log_length' = Len(messages)
    /\ cursor' = 0

\* HistoryViewer.__init__: the new viewer's fields.
HistoryViewer_init ==
    /\ log_length' = Len(messages)
    /\ cursor' = Len(messages) - 1

\* MainGameEventHandler.ev_keydown with the offset's components swapped in
\* the bump action.
MainGameEventHandler_ev_keydown_swapped(key) ==
    /\ pc' = "handle_action"
    /\ UNCHANGED mouse_location
    /\ IF key \in DOMAIN MOVE_KEYS
         THEN /\ action' = BumpAction("player", MOVE_KEYS[key][2], MOVE_KEYS[key][1])
              /\ UNCHANGED << event_handler, log_length, cursor >>
       ELSE IF key \in WAIT_KEYS
         THEN /\ action' = WaitAction("player")
              /\ UNCHANGED << event_handler, log_length, cursor >>
       ELSE IF key = "K_v"
         THEN /\ action' = None
              /\ event_handler' = "HISTORY"
              /\ HistoryViewer_init
       ELSE IF key = "K_g"
         THEN /\ action' = PickupAction("player")
              /\ UNCHANGED << event_handler, log_length, cursor >>
       ELSE IF key = "K_ESCAPE"
         THEN /\ action' = EscapeAction("player")
              /\ UNCHANGED << event_handler, log_length, cursor >>
       ELSE /\ action' = None
            /\ UNCHANGED << event_handler, log_length, cursor >>

\* MainGameEventHandler.ev_keydown with a wait as the last branch, for any
\* key no branch names.
MainGameEventHandler_ev_keydown_elsewait(key) ==
    /\ pc' = "handle_action"
    /\ UNCHANGED mouse_location
    /\ IF key \in DOMAIN MOVE_KEYS
         THEN /\ action' = BumpAction("player", MOVE_KEYS[key][1], MOVE_KEYS[key][2])
              /\ UNCHANGED << event_handler, log_length, cursor >>
       ELSE IF key = "K_v"
         THEN /\ action' = None
              /\ event_handler' = "HISTORY"
              /\ HistoryViewer_init
       ELSE IF key = "K_g"
         THEN /\ action' = PickupAction("player")
              /\ UNCHANGED << event_handler, log_length, cursor >>
       ELSE IF key = "K_ESCAPE"
         THEN /\ action' = EscapeAction("player")
              /\ UNCHANGED << event_handler, log_length, cursor >>
       ELSE /\ action' = WaitAction("player")
            /\ UNCHANGED << event_handler, log_length, cursor >>

\* MainGameEventHandler.ev_keydown
MainGameEventHandler_ev_keydown(key) ==
    /\ pc' = "handle_action"
    /\ UNCHANGED mouse_location
    /\ IF key \in DOMAIN MOVE_KEYS
         THEN /\ action' = BumpAction("player", MOVE_KEYS[key][1], MOVE_KEYS[key][2])
              /\ UNCHANGED << event_handler, log_length, cursor >>
       ELSE IF key \in WAIT_KEYS
         THEN /\ action' = WaitAction("player")
              /\ UNCHANGED << event_handler, log_length, cursor >>
       ELSE IF key = "K_v"
         THEN /\ action' = None
              /\ event_handler' = "HISTORY"
              /\ HistoryViewer_init
       ELSE IF key = "K_g"
         THEN /\ action' = PickupAction("player")
              /\ UNCHANGED << event_handler, log_length, cursor >>
       ELSE IF key = "K_ESCAPE"
         THEN /\ action' = EscapeAction("player")
              /\ UNCHANGED << event_handler, log_length, cursor >>
       ELSE /\ action' = None
            /\ UNCHANGED << event_handler, log_length, cursor >>

\* AskUserEventHandler.on_exit
AskUserEventHandler_on_exit ==
    /\ event_handler' = "MAIN"
    /\ action' = None

\* AskUserEventHandler.ev_keydown without the modifier-key test.
AskUserEventHandler_ev_keydown_nomod(key) ==
    /\ pc' = "handle_action"
    /\ UNCHANGED << mouse_location, log_length, cursor >>
    /\ AskUserEventHandler_on_exit

\* AskUserEventHandler.ev_keydown
AskUserEventHandler_ev_keydown(key) ==
    /\ pc' = "handle_action"
    /\ UNCHANGED << mouse_location, log_length, cursor >>
    /\ IF key \in MODIFIER_KEYS
         THEN /\ action' = None
              /\ UNCHANGED event_handler
         ELSE AskUserEventHandler_on_exit

\* ev_keydown of a prompt subtype: a choice key yields the chosen action,
\* any other key falls back on AskUserEventHandler.ev_keydown.
AskSubtype_ev_keydown(key) ==
    IF key = "K_a"
      THEN /\ pc' = "handle_action"
           /\ action' = ItemAction("player")
           /\ UNCHANGED << event_handler, mouse_location, log_length, cursor >>
      ELSE AskUserEventHandler_ev_keydown(key)

\* GameOverEventHandler.ev_keydown leaving the process on any key.
GameOverEventHandler_ev_keydown_anykey(key) ==
    SystemExit

\* GameOverEventHandler.ev_keydown; without escape the method returns None.
GameOverEventHandler_ev_keydown(key) ==
    IF key = "K_ESCAPE"
      THEN SystemExit
      ELSE /\ pc' = "handle_action"
           /\ action' = None
           /\ UNCHANGED << event_handler, mouse_location, log_length, cursor >>

\* HistoryViewer's cursor rule without the two wrap branches.
HistoryViewer_cursor_nowrap(key, cur, len) ==
    IF key \in DOMAIN CURSOR_Y_KEYS
      THEN Max(0, Min(cur + CURSOR_Y_KEYS[key], len - 1))
    ELSE IF key = "K_HOME"
      THEN 0
    ELSE len - 1

\* HistoryViewer's cursor rule with the move clamped at the top only.
HistoryViewer_cursor_noclamp(key, cur, len) ==
    IF key \in DOMAIN CURSOR_Y_KEYS
      THEN LET adjust == CURSOR_Y_KEYS[key] IN
           IF adjust < 0 /\ cur = 0
             THEN len - 1
           ELSE IF adjust > 0 /\ cur = len - 1
             THEN 0
           ELSE Max(0, cur + adjust)
    ELSE IF key = "K_HOME"
      THEN 0
    ELSE len - 1

\* HistoryViewer's cursor rule with Home and End moving one message only.
HistoryViewer_cursor_homeend(key, cur, len) ==
    IF key \in DOMAIN CURSOR_Y_KEYS
      THEN LET adjust == CURSOR_Y_KEYS[key] IN
           IF adjust < 0 /\ cur = 0
             THEN len - 1
           ELSE IF adjust > 0 /\ cur = len - 1
             THEN 0
           ELSE Max(0, Min(cur + adjust, len - 1))
    ELSE IF key = "K_HOME"
      THEN Max(0, cur - 1)
    ELSE Min(cur + 1, len - 1)

\* The cursor HistoryViewer.ev_keydown leaves for a navigation key.
HistoryViewer_cursor(key, cur, len) ==
    IF key \in DOMAIN CURSOR_Y_KEYS
      THEN LET adjust == CURSOR_Y_KEYS[key] IN
           IF adjust < 0 /\ cur = 0
             THEN len - 1
           ELSE IF adjust > 0 /\ cur = len - 1
             THEN 0
           ELSE Max(0, Min(cur + adjust, len - 1))
    ELSE IF key = "K_HOME"
      THEN 0
    ELSE len - 1

\* HistoryViewer.ev_keydown handing the bump of the main handler back for
\* the keys of CURSOR_Y_KEYS, besides moving the cursor.
HistoryViewer_ev_keydown_bump(key) ==
    /\ pc' = "handle_action"
    /\ action' =
           IF key \in DOMAIN CURSOR_Y_KEYS
             THEN BumpAction("player", MOVE_KEYS[key][1], MOVE_KEYS[key][2])
             ELSE None
    /\ UNCHANGED mouse_location
    /\ IF key \in DOMAIN CURSOR_Y_KEYS \/ key = "K_HOME" \/ key = "K_END"
         THEN /\ cursor' = HistoryViewer_cursor(key, cursor, log_length)
              /\ UNCHANGED << event_handler, log_length >>
         ELSE /\ event_handler' = "MAIN"
              /\ log_length' = NoViewer
              /\ cursor' = NoViewer

\* HistoryViewer.ev_keydown ignoring the modifier keys, as the prompts do.
HistoryViewer_ev_keydown_modifiers(key) ==
    /\ pc' = "handle_action"
    /\ action' = None
    /\ UNCHANGED mouse_location
    /\ IF key \in DOMAIN CURSOR_Y_KEYS \/ key = "K_HOME" \/ key = "K_END"
         THEN /\ cursor' = HistoryViewer_cursor(key, cursor, log_length)
              /\ UNCHANGED << event_handler, log_length >>
       ELSE IF key \in MODIFIER_KEYS
         THEN UNCHANGED << event_handler, log_length, cursor >>
       ELSE /\ event_handler' = "MAIN"
            /\ log_length' = NoViewer
            /\ cursor' = NoViewer

\* HistoryViewer.ev_keydown; the method returns None.  On any other key
\* the main handler replaces the viewer, whose fields go with it.
HistoryViewer_ev_keydown(key) ==
    /\ pc' = "handle_action"
    /\ action' = None
    /\ UNCHANGED mouse_location
    /\ IF key \in DOMAIN CURSOR_Y_KEYS \/ key = "K_HOME" \/ key = "K_END"
         THEN /\ cursor' = HistoryViewer_cursor(key, cursor, log_length)
              /\ UNCHANGED << event_handler, log_length >>
         ELSE /\ event_handler' = "MAIN"
              /\ log_length' = NoViewer
              /\ cursor' = NoViewer

\* tcod's EventDispatch.dispatch: the event method of the active handler's
\* class for the event's kind.
dispatch(ev) ==
    IF ev.type = "Quit"
      THEN EventHandler_ev_quit
    ELSE IF ev.type = "MouseMotion"
      THEN EventHandler_ev_mousemotion(ev.tile)
    ELSE IF event_handler = "MAIN"
      THEN MainGameEventHandler_ev_keydown(ev.sym)
    ELSE IF event_handler = "ASK"
      THEN AskUserEventHandler_ev_keydown(ev.sym)
    ELSE IF event_handler = "ASK_SUB"
      THEN AskSubtype_ev_keydown(ev.sym)
    ELSE IF event_handler = "HISTORY"
      THEN HistoryViewer_ev_keydown(ev.sym)
    ELSE GameOverEventHandler_ev_keydown(ev.sym)

\* EventHandler.handle_events, up to the call of handle_action: the active
\* handler takes the event and dispatches it.  An event that yields an
\* action is taken only while the log may still grow (MaxImpossible).
EventHandler_handle_events(ev) ==
    /\ pc = "idle"
    /\ self' = event_handler
    /\ event' = ev
    /\ perform_result' = "none"
    /\ trace' = <<>>
    /\ ret' = "none"
    /\ dispatch(ev)
    /\ action' # None => ImpossibleCount(messages) < MaxImpossible
    /\ UNCHANGED << messages, player >>

(***************************************************************************)
(* Action.perform() of the action classes: how a call can end, from the    *)
(* position p of the player.  A result is "ok" with the player's new       *)
(* position, or "Impossible" with the text the exception carries; a        *)
(* perform that raises Impossible has changed nothing.                     *)
(***************************************************************************)
Ok(p) == [result |-> "ok", player |-> p, text |-> ""]
Impossible(p, text) == [result |-> "Impossible", player |-> p, text |-> text]

perform(a, p) ==
    IF a.kind = "BumpAction"
      THEN LET dest == << p[1] + a.dx, p[2] + a.dy >> IN
           IF in_bounds(dest[1], dest[2])
             THEN { Ok(dest), Impossible(p, "That way is blocked.") }
             ELSE { Impossible(p, "That way is blocked.") }
    ELSE IF a.kind = "PickupAction"
      THEN { Ok(p), Impossible(p, "There is nothing here to pick up.") }
    ELSE IF a.kind = "ItemAction"
      THEN { Ok(p), Impossible(p, "Invalid entry.") }
    ELSE { Ok(p) }

\* engine.handle_enemy_turns(): the other actors act; when that is the
\* game-over trigger the session installs the game-over handler.
handle_enemy_turns(h) == { h, "GAMEOVER" }

(***************************************************************************)
(* EventHandler.handle_action, statement by statement.                     *)
(***************************************************************************)
\* if action is None: return False  (AskUserEventHandler.handle_action
\* returns False on it as well)
EventHandler_handle_action_None ==
    /\ pc = "handle_action"
    /\ action = None
    /\ Return("False")
    /\ UNCHANGED << event_handler, messages, player, mouse_location,
                    log_length, cursor, perform_result, trace >>

\* handle_action's perform statement with the enemy turns left out after a
\* successful perform.
EventHandler_handle_action_perform_noturn ==
    /\ pc = "handle_action"
    /\ action # None
    /\ \E r \in perform(action, player) :
          /\ perform_result' = r.result
          /\ player' = r.player
          /\ IF r.result = "Impossible"
               THEN /\ messages' = add_message(messages, r.text, impossible)
                    /\ trace' = << "perform", "add_message" >>
                    /\ Return("False")
               ELSE /\ trace' = << "perform" >>
                    /\ pc' = "update_fov"
                    /\ UNCHANGED << messages, ret, self, event, action >>
    /\ UNCHANGED << event_handler, mouse_location, log_length, cursor >>

\* handle_action's perform statement with the return missing from the
\* except branch.
EventHandler_handle_action_perform_noreturn ==
    /\ pc = "handle_action"
    /\ action # None
    /\ \E r \in perform(action, player) :
          /\ perform_result' = r.result
          /\ player' = r.player
          /\ IF r.result = "Impossible"
               THEN /\ messages' = add_message(messages, r.text, impossible)
                    /\ trace' = << "perform", "add_message" >>
                    /\ pc' = "handle_enemy_turns"
                    /\ UNCHANGED << ret, self, event, action >>
               ELSE /\ trace' = << "perform" >>
                    /\ pc' = "handle_enemy_turns"
                    /\ UNCHANGED << messages, ret, self, event, action >>
    /\ UNCHANGED << event_handler, mouse_location, log_length, cursor >>

\* try: action.perform()  except Impossible: add_message(...); return False
EventHandler_handle_action_perform ==
    /\ pc = "handle_action"
    /\ action # None
    /\ \E r \in perform(action, player) :
          /\ perform_result' = r.result
          /\ player' = r.player
          /\ IF r.result = "Impossible"
               THEN /\ messages' = add_message(messages, r.text, impossible)
                    /\ trace' = << "perform", "add_message" >>
                    /\ Return("False")
               ELSE /\ trace' = << "perform" >>
                    /\ pc' = "handle_enemy_turns"
                    /\ UNCHANGED << messages, ret, self, event, action >>
    /\ UNCHANGED << event_handler, mouse_location, log_length, cursor >>

\* self.engine.handle_enemy_turns()
EventHandler_handle_action_enemy_turns ==
    /\ pc = "handle_enemy_turns"
    /\ event_handler' \in handle_enemy_turns(event_handler)
    /\ trace' = Append(trace, "handle_enemy_turns")
    /\ pc' = "update_fov"
    /\ UNCHANGED << messages, player, mouse_location, log_length, cursor,
                    self, event, action, perform_result, ret >>

\* self.engine.update_fov(); return True.  In an AskUserEventHandler the
\* True goes to the if of its own handle_action.
EventHandler_handle_action_update_fov ==
    /\ pc = "update_fov"
    /\ trace' = Append(trace, "update_fov")
    /\ IF IsAskUser(self)
         THEN /\ pc' = "ask_return"
              /\ UNCHANGED << ret, self, event, action >>
         ELSE Return("True")
    /\ UNCHANGED << event_handler, messages, player, mouse_location,
                    log_length, cursor, perform_result >>

\* AskUserEventHandler.handle_action returning True without installing
\* the main handler.
AskUserEventHandler_handle_action_stay ==
    /\ pc = "ask_return"
    /\ trace' = trace
    /\ Return("True")
    /\ UNCHANGED << event_handler, messages, player, mouse_location,
                    log_length, cursor, perform_result >>

\* AskUserEventHandler.handle_action after super().handle_action(action)
\* returned True: the main handler is installed, then return True.
AskUserEventHandler_handle_action ==
    /\ pc = "ask_return"
    /\ event_handler' = "MAIN"
    /\ trace' = Append(trace, "set_event_handler")
    /\ Return("True")
    /\ UNCHANGED << messages, player, mouse_location, log_length, cursor,
                    perform_result >>

Next ==
    \/ \E ev \in Events : EventHandler_handle_events(ev)
    \/ EventHandler_handle_action_None
    \/ EventHandler_handle_action_perform
    \/ EventHandler_handle_action_enemy_turns
    \/ EventHandler_handle_action_update_fov
    \/ AskUserEventHandler_handle_action

Spec == Init /\ [][Next]_vars

TypeOK ==
    /\ event_handler \in Handlers
    /\ pc \in { "idle", "handle_action", "handle_enemy_turns", "update_fov",
                "ask_return", "exited" }
    /\ ret \in { "none", "True", "False" }
    /\ perform_result \in { "none", "ok", "Impossible" }
    /\ in_bounds(player[1], player[2])
    /\ in_bounds(mouse_location[1], mouse_location[2])
    /\ (event_handler = "HISTORY") = (log_length # NoViewer)

(***************************************************************************)
(* Properties.                                                             *)
(***************************************************************************)
\* The engine calls of a turn that advances, in order.
FullTurn == << "perform", "handle_enemy_turns", "update_fov" >>

Count(seq, x) == Cardinality({ i \in 1..Len(seq) : seq[i] = x })

\* The event being processed is a key-down of a key in keys, taken by a
\* handler of class h, and dispatch has just returned.
Dispatched(h, keys) ==
    /\ pc = "handle_action"
    /\ self = h
    /\ event.type = "KeyDown"
    /\ event.sym \in keys

\* The step hands a key-down of a key in keys to the active HistoryViewer.
ViewerTakes(keys) ==
    /\ pc = "idle"
    /\ event_handler = "HISTORY"
    /\ pc' = "handle_action"
    /\ event'.type = "KeyDown"
    /\ event'.sym \in keys

\* clamp(x, lo, hi)
Clamp(x, lo, hi) == Max(lo, Min(x, hi))

\* C1: once action.perform() has succeeded in a handle_action call, the
\* call's engine calls are perform, then handle_enemy_turns, then
\* update_fov, each exactly once and in that order (a prefix of that while
\* the call is still running), the call writes no message, and when it has
\* returned it has returned True.
C1_SuccessfulTurn ==
    perform_result = "ok" =>
        /\ Count(trace, "add_message") = 0
        /\ \/ \E n \in 1..3 : trace = SubSeq(FullTurn, 1, n)
           \/ trace = FullTurn \o << "set_event_handler" >>
        /\ pc = "handle_enemy_turns" => trace = << "perform" >>
        /\ pc = "update_fov" => trace = << "perform", "handle_enemy_turns" >>
        /\ pc = "idle" =>
              /\ ret = "True"
              /\ SubSeq(trace, 1, 3) = FullTurn
              /\ Count(trace, "handle_enemy_turns") = 1
              /\ Count(trace, "update_fov") = 1
        /\ pc # "idle" => ret = "none"

C1_Witness ==
    /\ pc = "idle"
    /\ perform_result = "ok"
    /\ ret = "True"
    /\ trace = FullTurn

\* C2: a handle_action step in which action.perform() raises Impossible
\* appends exactly one message, the exception's text in the impossible
\* colour, leaves the player and the active handler as they were, runs
\* neither handle_enemy_turns nor update_fov, and returns False.
C2_ImpossibleAction ==
    [][ (pc = "handle_action" /\ action # None /\ perform_result' = "Impossible") =>
            /\ \E r \in perform(action, player) :
                  /\ r.result = "Impossible"
                  /\ messages' = messages \o << [text |-> r.text, fg |-> "impossible"] >>
            /\ Len(messages') = Len(messages) + 1
            /\ player' = player
            /\ event_handler' = event_handler
            /\ trace' = << "perform", "add_message" >>
            /\ ret' = "False"
            /\ pc' = "idle" ]_vars

C2_Witness ==
    /\ pc = "idle"
    /\ perform_result = "Impossible"
    /\ ret = "False"
    /\ trace = << "perform", "add_message" >>
    /\ Len(messages) >= 1
    /\ messages[Len(messages)] = [text |-> "That way is blocked.", fg |-> "impossible"]

\* C3: a key-down of any key of WAIT_KEYS dispatched by the main handler
\* yields a wait action (and so no bump action with an offset).
C3_WaitKeysWait ==
    Dispatched("MAIN", WAIT_KEYS) => action = WaitAction("player")

\* C4: a key-down of any key of MOVE_KEYS dispatched by the main handler
\* yields a bump action of the player with exactly the offset MOVE_KEYS
\* gives the key, and the active handler is still the main handler.
C4_MoveKeysBump ==
    Dispatched("MAIN", DOMAIN MOVE_KEYS) =>
        /\ action.kind = "BumpAction"
        /\ action.entity = "player"
        /\ << action.dx, action.dy >> = MOVE_KEYS[event.sym]
        /\ event_handler = "MAIN"

C4_Witness ==
    /\ Dispatched("MAIN", { "K_END" })
    /\ action = BumpAction("player", -1, 1)
    /\ event_handler = "MAIN"

\* C5: a HistoryViewer opened on an empty log has cursor -1, and keeps it
\* whatever navigation keys it is given.
C5_EmptyLogCursor ==
    (event_handler = "HISTORY" /\ log_length = 0) => cursor = -1

\* C6: once the active handler is the game-over handler it stays the
\* game-over handler: no step replaces it.
C6_GameOverTerminal ==
    [][ event_handler = "GAMEOVER" => event_handler' = "GAMEOVER" ]_vars

\* C7: when the handle_action of an AskUserEventHandler returns, then after
\* a successful perform the main handler is the active handler, the enemy
\* turns and the visibility refresh came before that, and it returns True;
\* and for an absent action or an Impossible one the returning step leaves
\* the active handler as it was and returns False.
C7_AskUserReturn ==
    [][ (IsAskUser(self) /\ pc # "idle" /\ pc' = "idle") =>
            IF perform_result' = "ok"
              THEN /\ event_handler' = "MAIN"
                   /\ trace' = FullTurn \o << "set_event_handler" >>
                   /\ ret' = "True"
              ELSE /\ action = None \/ perform_result' = "Impossible"
                   /\ event_handler' = event_handler
                   /\ ret' = "False" ]_vars

C7_Witness ==
    /\ pc = "idle"
    /\ ret = "True"
    /\ perform_result = "ok"
    /\ trace = FullTurn \o << "set_event_handler" >>
    /\ event_handler = "MAIN"

\* C8: in a HistoryViewer with log_length >= 1, a key of CURSOR_Y_KEYS with
\* a negative step at cursor 0 sets the cursor to log_length - 1, and one
\* with a positive step at cursor log_length - 1 sets it to 0.
C8_CursorWrap ==
    [][ (ViewerTakes(DOMAIN CURSOR_Y_KEYS) /\ log_length >= 1) =>
            LET step == CURSOR_Y_KEYS[event'.sym] IN
            /\ (step < 0 /\ cursor = 0) => cursor' = log_length - 1
            /\ (step > 0 /\ cursor = log_length - 1) => cursor' = 0
            /\ log_length' = log_length ]_vars

\* With 5 messages the cursor is 4 after an up key only by the wrap from 0.
C8_Witness ==
    /\ Dispatched("HISTORY", { "K_UP" })
    /\ log_length = 5
    /\ cursor = 4

\* C9: in a HistoryViewer, a key of CURSOR_Y_KEYS pressed while the cursor
\* is not at the boundary in the step's direction sets the cursor to
\* clamp(cursor + step, 0, log_length - 1); with log_length >= 1 that is an
\* index of the log.
C9_CursorClamp ==
    [][ ViewerTakes(DOMAIN CURSOR_Y_KEYS) =>
            LET step == CURSOR_Y_KEYS[event'.sym] IN
            ((step < 0 /\ cursor # 0) \/ (step > 0 /\ cursor # log_length - 1)) =>
                /\ cursor' = Clamp(cursor + step, 0, log_length - 1)
                /\ log_length >= 1 =>
                      /\ 0 <= cursor' /\ cursor' < log_length
                      /\ cursor + step \in 0..(log_length - 1) => cursor' = cursor + step ]_vars

\* With 5 messages a page down ends on 4 only by the clamp (from 4 it
\* wraps to 0).
C9_Witness ==
    /\ Dispatched("HISTORY", { "K_PAGEDOWN" })
    /\ log_length = 5
    /\ cursor = 4

\* C10: in a HistoryViewer the Home key leaves the cursor at 0 and the End
\* key leaves it at log_length - 1, and the viewer is still the active
\* handler.
C10_HomeEnd ==
    /\ Dispatched("HISTORY", { "K_HOME" }) =>
          cursor = 0 /\ event_handler = "HISTORY" /\ log_length # NoViewer
    /\ Dispatched("HISTORY", { "K_END" }) =>
          cursor = log_length - 1 /\ event_handler = "HISTORY" /\ log_length # NoViewer

\* Home in a viewer of 5 messages: the viewer opens with the cursor at 4.
C10_Witness ==
    /\ Dispatched("HISTORY", { "K_HOME" })
    /\ log_length = 5
    /\ cursor = 0
    /\ event_handler = "HISTORY"

\* The step hands a key-down of a key in keys to the active handler, of
\* class h.
HandlerTakes(h, keys) ==
    /\ pc = "idle"
    /\ event_handler = h
    /\ pc' # "idle"
    /\ event'.type = "KeyDown"
    /\ event'.sym \in keys

\* C11: while a HistoryViewer with log_length >= 1 is the active handler,
\* its cursor is an index of the log: 0 <= cursor < log_length.
C11_CursorInRange ==
    (event_handler = "HISTORY" /\ log_length >= 1) =>
        (0 <= cursor /\ cursor < log_length)

\* A viewer of 5 messages after a key it handled, the cursor in the middle.
C11_Witness ==
    /\ Dispatched("HISTORY", { "K_DOWN" })
    /\ event_handler = "HISTORY"
    /\ log_length = 5
    /\ cursor = 2

\* C12: a key-down taken by the game-over handler ends the process if the
\* key is escape; for any other key the process goes on, dispatch yields no
\* action, and the call returns False with the game-over handler still
\* active, no engine call made and the log and player as they were.
C12_GameOverKeys ==
    [][ /\ HandlerTakes("GAMEOVER", Keys) =>
              IF event'.sym = "K_ESCAPE"
                THEN pc' = "exited"
                ELSE /\ pc' = "handle_action"
                     /\ action' = None
                     /\ trace' = <<>>
                     /\ UNCHANGED << event_handler, messages, player >>
        /\ (self = "GAMEOVER" /\ pc = "handle_action") =>
              /\ pc' = "idle"
              /\ ret' = "False"
              /\ trace' = <<>>
              /\ perform_result' = "none"
              /\ UNCHANGED << event_handler, messages, player >> ]_vars

C12_Witness ==
    /\ Dispatched("GAMEOVER", { "K_RETURN" })
    /\ event_handler = "GAMEOVER"
    /\ action = None

\* The escape key in the game-over handler: the process has ended.
C12_WitnessEscape ==
    /\ pc = "exited"
    /\ self = "GAMEOVER"
    /\ event.type = "KeyDown"
    /\ event.sym = "K_ESCAPE"

\* The tiles of the map.
MapTiles == (0..(MapWidth - 1)) \X (0..(MapHeight - 1))

\* C13: in every handler, a mouse-motion event over a tile of the map sets
\* mouse_location to that tile and one over a tile outside the map leaves
\* mouse_location as it was; dispatch yields no action, and the call
\* returns False with no engine call made and the active handler, the
\* viewer's fields, the log and the player as they were.
C13_MouseMotion ==
    [][ /\ (pc = "idle" /\ event'.type = "MouseMotion") =>
              /\ mouse_location' =
                     IF event'.tile \in MapTiles THEN event'.tile ELSE mouse_location
              /\ pc' = "handle_action"
              /\ action' = None
              /\ trace' = <<>>
              /\ UNCHANGED << event_handler, log_length, cursor, messages, player >>
        /\ (pc = "handle_action" /\ event.type = "MouseMotion") =>
              /\ pc' = "idle"
              /\ ret' = "False"
              /\ trace' = <<>>
              /\ perform_result' = "none"
              /\ UNCHANGED << event_handler, log_length, cursor, messages,
                              player, mouse_location >> ]_vars

\* The pointer has moved from the first tile to another tile of the map.
C13_Witness ==
    /\ pc = "handle_action"
    /\ event.type = "MouseMotion"
    /\ event.tile = << MapWidth - 1, 0 >>
    /\ mouse_location = << MapWidth - 1, 0 >>
    /\ action = None

\* The pointer is over a tile outside the map and the hover is elsewhere.
C13_WitnessOutside ==
    /\ pc = "handle_action"
    /\ event.type = "MouseMotion"
    /\ event.tile \notin MapTiles
    /\ mouse_location # event.tile
    /\ self = "GAMEOVER"

\* C14: no event a HistoryViewer takes (key-down, mouse motion, quit)
\* yields an action: in every step of a call the viewer processes, the
\* action is None, no engine call has been made, perform has not run, and
\* the log and the player are as they were.
C14_ViewerNoAction ==
    [][ (self = "HISTORY" \/ self' = "HISTORY") =>
            /\ action' = None
            /\ trace' = <<>>
            /\ perform_result' = "none"
            /\ pc' \in { "handle_action", "idle", "exited" }
            /\ pc' = "idle" => ret' = "False"
            /\ UNCHANGED << messages, player >> ]_vars

\* The viewer has taken a page-up key and moved its cursor to the top.
C14_Witness ==
    /\ Dispatched("HISTORY", { "K_PAGEUP" })
    /\ log_length = 5
    /\ cursor = 0
    /\ action = None
    /\ trace = <<>>

\* C15: a key-down taken by an AskUserEventHandler with the default key
\* handling yields no action and no engine call; after a key that is not
\* one of the six modifier keys the main handler is the active handler,
\* after a modifier key the prompt still is; the call then returns False
\* with the handler as the key handling left it.
C15_PromptDefaultKeys ==
    [][ /\ HandlerTakes("ASK", Keys) =>
              /\ pc' = "handle_action"
              /\ action' = None
              /\ trace' = <<>>
              /\ event_handler' =
                     IF event'.sym \in MODIFIER_KEYS THEN "ASK" ELSE "MAIN"
              /\ UNCHANGED << messages, player >>
        /\ (self = "ASK" /\ pc = "handle_action") =>
              /\ pc' = "idle"
              /\ ret' = "False"
              /\ trace' = <<>>
              /\ perform_result' = "none"
              /\ UNCHANGED << event_handler, messages, player >> ]_vars

C15_Witness ==
    /\ Dispatched("ASK", { "K_RETURN" })
    /\ event_handler = "MAIN"
    /\ action = None

\* A modifier key: the prompt is still the active handler.
C15_WitnessModifier ==
    /\ Dispatched("ASK", { "K_RCTRL" })
    /\ event_handler = "ASK"
    /\ action = None

\* C16: a key-down of v taken by the main handler installs a HistoryViewer
\* whose log_length is the number of messages at that moment and whose
\* cursor is log_length - 1; dispatch yields no action and the call returns
\* False with no engine call made and the log and the player as they were.
C16_OpenHistory ==
    [][ /\ HandlerTakes("MAIN", { "K_v" }) =>
              /\ pc' = "handle_action"
              /\ event_handler' = "HISTORY"
              /\ log_length' = Len(messages)
              /\ cursor' = Len(messages) - 1
              /\ action' = None
              /\ trace' = <<>>
              /\ UNCHANGED << messages, player >>
        /\ Dispatched("MAIN", { "K_v" }) =>
              /\ pc' = "idle"
              /\ ret' = "False"
              /\ trace' = <<>>
              /\ perform_result' = "none"
              /\ UNCHANGED << event_handler, log_length, cursor, messages, player >> ]_vars

\* The viewer opened on a log that holds an impossible message.
C16_Witness ==
    /\ Dispatched("MAIN", { "K_v" })
    /\ event_handler = "HISTORY"
    /\ ImpossibleCount(messages) = 1
    /\ log_length = Len(messages)
    /\ cursor = log_length - 1
    /\ action = None

\* The keys the viewer moves its cursor with.
NavigationKeys ==
    { "K_UP", "K_DOWN", "K_PAGEUP", "K_PAGEDOWN", "K_HOME", "K_END" }

\* C17: a key-down taken by a HistoryViewer leaves the viewer the active
\* handler, with its log_length, if the key is one of the six navigation
\* keys, and installs the main handler for every other key (escape and the
\* modifier keys among them).
C17_ViewerExitKeys ==
    [][ HandlerTakes("HISTORY", Keys) =>
            IF event'.sym \in NavigationKeys
              THEN UNCHANGED << event_handler, log_length >>
              ELSE event_handler' = "MAIN" ]_vars

\* A modifier key has closed the viewer.
C17_Witness ==
    /\ Dispatched("HISTORY", { "K_LSHIFT" })
    /\ event_handler = "MAIN"

\* C18: a quit event taken in any handler ends the process at once: no
\* action, no engine call, and the active handler, the viewer's fields, the
\* hover, the log and the player are as they were; nothing happens after.
C18_QuitExits ==
    [][ /\ (pc = "idle" /\ event'.type = "Quit") =>
              /\ pc' = "exited"
              /\ action' = None
              /\ trace' = <<>>
              /\ perform_result' = "none"
              /\ UNCHANGED << event_handler, log_length, cursor, mouse_location,
                              messages, player >>
        /\ pc = "exited" => UNCHANGED vars ]_vars

\* Quit while the viewer is open.
C18_Witness ==
    /\ pc = "exited"
    /\ event.type = "Quit"
    /\ self = "HISTORY"
    /\ event_handler = "HISTORY"

\* Quit in the main handler, in a prompt and in the game-over handler.
C18_WitnessMain == pc = "exited" /\ event.type = "Quit" /\ self = "MAIN"
C18_WitnessPrompt == pc = "exited" /\ event.type = "Quit" /\ self = "ASK_SUB"
C18_WitnessGameOver == pc = "exited" /\ event.type = "Quit" /\ self = "GAMEOVER"

\* The keys no branch of MainGameEventHandler.ev_keydown names.
UnmappedKeys ==
    Keys \ (DOMAIN MOVE_KEYS \cup WAIT_KEYS \cup { "K_v", "K_g", "K_ESCAPE" })

\* C19: a key-down of a key that is in neither table and is not v, g or
\* escape, taken by the main handler, yields no action and changes
\* nothing: the main handler stays active, and the call returns False with
\* no engine call made and the log, the player, the hover and the viewer's
\* fields as they were.
C19_UnmappedKeys ==
    [][ /\ HandlerTakes("MAIN", UnmappedKeys) =>
              /\ pc' = "handle_action"
              /\ action' = None
              /\ trace' = <<>>
              /\ UNCHANGED << event_handler, log_length, cursor, mouse_location,
                              messages, player >>
        /\ Dispatched("MAIN", UnmappedKeys) =>
              /\ pc' = "idle"
              /\ ret' = "False"
              /\ trace' = <<>>
              /\ perform_result' = "none"
              /\ UNCHANGED << event_handler, log_length, cursor, mouse_location,
                              messages, player >> ]_vars

C19_Witness ==
    /\ Dispatched("MAIN", { "K_a" })
    /\ event_handler = "MAIN"
    /\ action = None
    /\ trace = <<>>

\* C20: while a HistoryViewer is the active handler its log_length is the
\* number of messages in the log, and the slice messages[0..cursor] it
\* renders ends inside the log: cursor < number of messages.
C20_SnapshotIsLive ==
    event_handler = "HISTORY" =>
        /\ log_length = Len(messages)
        /\ cursor < Len(messages)

\* The first half of C20 alone: the snapshot equals the live count.
C20_SnapshotOnly ==
    event_handler = "HISTORY" => log_length = Len(messages)

====
